---- MODULE Spec2Model ----
(***************************************************************************)
(* Model of the payment engine: the account state machine of              *)
(* src/src/client.rs (ClientAccount) and the router of src/src/engine.rs   *)
(* (PaymentEngine), fed with the operations of src/src/types.rs            *)
(* (TransactionType).  Amounts are rust_decimal values of scale <= 4; they *)
(* are modelled as integers counting units of 10^-PRECISION.               *)
(***************************************************************************)
EXTENDS Integers, FiniteSets, Sequences, TLC

\* ---------------------------------------------------------------- bounds
\* client ids are 1..MaxClient
MaxClient == 2
\* transaction ids are 1..MaxTx
MaxTx == 2
\* amounts are 1..MaxAmount and one negative amount (the adapter accepts
\* any sign)
MaxAmount == 2
\* when several clients are routed together: the deposits and withdrawals
\* recorded in the whole account table
MaxRecorded == 2
\* the largest magnitude a balance can take: stands for Decimal::MAX, the
\* 96-bit mantissa of rust_decimal, scaled down
DecimalMax == 5

\* ------------------------------------------------------ program constants
PRECISION == 4

\* operations that have arrived and wait for the worker of their client
MaxPending == 2

Clients == 1..MaxClient
TxIds == 1..MaxTx
Amounts == (1..MaxAmount) \cup {-1}
\* several clients are routed with the unit amount only
EngineAmounts == {1}

\* --------------------------------------------------------- TransactionType
Deposit(client, tx, amount) ==
    [kind |-> "Deposit", client |-> client, tx |-> tx, amount |-> amount]

Withdrawal(client, tx, amount) ==
    [kind |-> "Withdrawal", client |-> client, tx |-> tx, amount |-> amount]

Dispute(client, tx) == [kind |-> "Dispute", client |-> client, tx |-> tx]

Resolve(client, tx) == [kind |-> "Resolve", client |-> client, tx |-> tx]

Chargeback(client, tx) == [kind |-> "Chargeback", client |-> client, tx |-> tx]

client_id(op) == op.client

transaction_id(op) == op.tx

\* CsvTransaction.amount: Option<String>. A string is either not a decimal
\* or the decimal mantissa * 10^-scale.
None == [some |-> FALSE, valid |-> FALSE, mantissa |-> 0, scale |-> 0]

NotADecimal == [some |-> TRUE, valid |-> FALSE, mantissa |-> 0, scale |-> 0]

Decimal(mantissa, scale) ==
    [some |-> TRUE, valid |-> TRUE, mantissa |-> mantissa, scale |-> scale]

RECURSIVE Pow10(_)
Pow10(n) == IF n = 0 THEN 1 ELSE 10 * Pow10(n - 1)

\* the closure parse_decimal of try_from; an accepted amount is kept in
\* units of 10^-PRECISION
parse_decimal(value) ==
    IF ~value.valid
    THEN [ok |-> FALSE, err |-> "invalid decimal", dec |-> 0]
    ELSE IF value.scale > PRECISION
    THEN [ok |-> FALSE, err |-> "Invalid precision", dec |-> 0]
    ELSE [ok |-> TRUE, err |-> "None",
          dec |-> value.mantissa * Pow10(PRECISION - value.scale)]

Converted(op) == [ok |-> TRUE, op |-> op, err |-> "None"]

Rejected(err) == [ok |-> FALSE, op |-> [kind |-> "None"], err |-> err]

\* the amount of the deposit and withdrawal arms:
\* parse_decimal(value.amount.ok_or("No amount provided")?)?
required_amount(value) ==
    IF ~value.amount.some
    THEN [ok |-> FALSE, err |-> "No amount provided", dec |-> 0]
    ELSE parse_decimal(value.amount)

\* impl TryFrom<CsvTransaction> for TransactionType
try_from(value) ==
    LET amount == required_amount(value) IN
    IF value.ty = "deposit"
    THEN IF amount.ok
         THEN Converted(Deposit(value.client, value.tx, amount.dec))
         ELSE Rejected(amount.err)
    ELSE IF value.ty = "withdrawal"
    THEN IF amount.ok
         THEN Converted(Withdrawal(value.client, value.tx, amount.dec))
         ELSE Rejected(amount.err)
    ELSE IF value.ty = "dispute" THEN Converted(Dispute(value.client, value.tx))
    ELSE IF value.ty = "resolve" THEN Converted(Resolve(value.client, value.tx))
    ELSE IF value.ty = "chargeback"
    THEN Converted(Chargeback(value.client, value.tx))
    ELSE Rejected("Unknown transaction type")

\* ---------------------------------------------------------------- ClientErr
ClientErr ==
    {"AccountLocked", "InsufficientFunds", "DisputedTransactionNotFound",
     "AlreadyProcessed"}

\* Result<(), ClientErr> of a handler, together with the account as the
\* handler left it (an early return keeps whatever was written before it).
Ok(self) == [acct |-> self, res |-> "Ok"]

Err(self, e) == [acct |-> self, res |-> e]

\* ------------------------------------------------------------ ClientAccount
\* the empty HashMap
EmptyMap == [t \in {} |-> 0]

\* HashMap::insert: the key is added, or its value overwritten
Insert(m, k, v) == [x \in (DOMAIN m) \cup {k} |-> IF x = k THEN v ELSE m[x]]

new(client) ==
    [client |-> client,
     available |-> 0,
     held |-> 0,
     total |-> 0,
     locked |-> FALSE,
     processed_tx |-> EmptyMap,
     under_dispute |-> {}]

is_locked(self) == self.locked

\* fault: the deposit is credited to `available` only
handle_deposit_NoTotal(self, tx, amount) ==
    IF tx \in DOMAIN self.processed_tx
    THEN Err(self, "AlreadyProcessed")
    ELSE Ok([self EXCEPT !.available = @ + amount])

\* fault: no duplicate check, a repeated tx id is credited again
handle_deposit_NoDuplicateCheck(self, tx, amount) ==
    Ok([self EXCEPT !.available = @ + amount, !.total = @ + amount])

handle_deposit(self, tx, amount) ==
    IF tx \in DOMAIN self.processed_tx
    THEN Err(self, "AlreadyProcessed")
    ELSE Ok([self EXCEPT !.available = @ + amount, !.total = @ + amount])

\* fault: the debit is written before the funds check
handle_withdraw_DebitFirst(self, tx, amount) ==
    IF tx \in DOMAIN self.processed_tx
    THEN Err(self, "AlreadyProcessed")
    ELSE LET debited == [self EXCEPT !.available = @ - amount, !.total = @ - amount]
         IN  IF debited.available < 0
             THEN Err(debited, "InsufficientFunds")
             ELSE Ok(debited)

\* fault: the funds check reads `total`, so held funds count
handle_withdraw_AgainstTotal(self, tx, amount) ==
    IF tx \in DOMAIN self.processed_tx
    THEN Err(self, "AlreadyProcessed")
    ELSE IF self.total < amount
    THEN Err(self, "InsufficientFunds")
    ELSE Ok([self EXCEPT !.available = @ - amount, !.total = @ - amount])

\* fault: the funds check precedes the duplicate check
handle_withdraw_FundsFirst(self, tx, amount) ==
    IF self.available < amount
    THEN Err(self, "InsufficientFunds")
    ELSE IF tx \in DOMAIN self.processed_tx
    THEN Err(self, "AlreadyProcessed")
    ELSE Ok([self EXCEPT !.available = @ - amount, !.total = @ - amount])

handle_withdraw(self, tx, amount) ==
    IF tx \in DOMAIN self.processed_tx
    THEN Err(self, "AlreadyProcessed")
    ELSE IF self.available < amount
    THEN Err(self, "InsufficientFunds")
    ELSE Ok([self EXCEPT !.available = @ - amount, !.total = @ - amount])

\* fault: the disputed amount leaves `available` but is not held
handle_dispute_NoHold(self, tx) ==
    IF tx \in self.under_dispute
    THEN Err(self, "AlreadyProcessed")
    ELSE IF tx \notin DOMAIN self.processed_tx
    THEN Err(self, "DisputedTransactionNotFound")
    ELSE LET found == self.processed_tx[tx] IN
         IF found.kind = "Deposit"
         THEN Ok([self EXCEPT !.available = @ - found.amount,
                              !.under_dispute = @ \cup {transaction_id(found)}])
         ELSE Ok(self)

\* fault: the tx id is marked as disputed whatever the operation it names
handle_dispute_MarksAny(self, tx) ==
    IF tx \in self.under_dispute
    THEN Err(self, "AlreadyProcessed")
    ELSE IF tx \notin DOMAIN self.processed_tx
    THEN Err(self, "DisputedTransactionNotFound")
    ELSE LET found == self.processed_tx[tx]
             marked == [self EXCEPT !.under_dispute = @ \cup {transaction_id(found)}]
         IN  IF found.kind = "Deposit"
             THEN Ok([marked EXCEPT !.available = @ - found.amount,
                                    !.held = @ + found.amount])
             ELSE Ok(marked)

\* fault: a disputed withdrawal is held and marked like a deposit
handle_dispute_HoldsAny(self, tx) ==
    IF tx \in self.under_dispute
    THEN Err(self, "AlreadyProcessed")
    ELSE IF tx \notin DOMAIN self.processed_tx
    THEN Err(self, "DisputedTransactionNotFound")
    ELSE LET found == self.processed_tx[tx]
         IN  Ok([self EXCEPT !.available = @ - found.amount,
                             !.held = @ + found.amount,
                             !.under_dispute = @ \cup {transaction_id(found)}])

handle_dispute(self, tx) ==
    IF tx \in self.under_dispute
    THEN Err(self, "AlreadyProcessed")
    ELSE IF tx \notin DOMAIN self.processed_tx
    THEN Err(self, "DisputedTransactionNotFound")
    ELSE LET found == self.processed_tx[tx] IN
         IF found.kind = "Deposit"
         THEN Ok([self EXCEPT !.available = @ - found.amount,
                              !.held = @ + found.amount,
                              !.under_dispute = @ \cup {transaction_id(found)}])
         ELSE Ok(self)

\* fault: the resolved amount is credited but stays held
handle_resolve_NoRelease(self, tx) ==
    IF tx \notin DOMAIN self.processed_tx
    THEN Err(self, "DisputedTransactionNotFound")
    ELSE LET disputed_tx == self.processed_tx[tx]
             removed == [self EXCEPT !.under_dispute = @ \ {transaction_id(disputed_tx)}]
         IN  IF transaction_id(disputed_tx) \notin self.under_dispute
             THEN Err(self, "DisputedTransactionNotFound")
             ELSE IF disputed_tx.kind = "Deposit"
             THEN Ok([removed EXCEPT !.available = @ + disputed_tx.amount])
             ELSE Ok(removed)

\* fault: a recorded tx is resolved whether or not it is under dispute
handle_resolve_Unchecked(self, tx) ==
    IF tx \notin DOMAIN self.processed_tx
    THEN Err(self, "DisputedTransactionNotFound")
    ELSE LET disputed_tx == self.processed_tx[tx]
             removed == [self EXCEPT !.under_dispute = @ \ {transaction_id(disputed_tx)}]
         IN  IF disputed_tx.kind = "Deposit"
             THEN Ok([removed EXCEPT !.available = @ + disputed_tx.amount,
                                     !.held = @ - disputed_tx.amount])
             ELSE Ok(removed)

\* fault: a resolved tx stays in the disputed set
handle_resolve_KeepsDisputed(self, tx) ==
    IF tx \notin DOMAIN self.processed_tx
    THEN Err(self, "DisputedTransactionNotFound")
    ELSE LET disputed_tx == self.processed_tx[tx]
         IN  IF transaction_id(disputed_tx) \notin self.under_dispute
             THEN Err(self, "DisputedTransactionNotFound")
             ELSE IF disputed_tx.kind = "Deposit"
             THEN Ok([self EXCEPT !.available = @ + disputed_tx.amount,
                                  !.held = @ - disputed_tx.amount])
             ELSE Ok(self)

handle_resolve(self, tx) ==
    IF tx \notin DOMAIN self.processed_tx
    THEN Err(self, "DisputedTransactionNotFound")
    ELSE LET disputed_tx == self.processed_tx[tx]
             removed == [self EXCEPT !.under_dispute = @ \ {transaction_id(disputed_tx)}]
         IN  IF transaction_id(disputed_tx) \notin self.under_dispute
             THEN Err(self, "DisputedTransactionNotFound")
             ELSE IF disputed_tx.kind = "Deposit"
             THEN Ok([removed EXCEPT !.available = @ + disputed_tx.amount,
                                     !.held = @ - disputed_tx.amount])
             ELSE Ok(removed)

\* fault: the chargeback does not lock the account
handle_chargeback_NoLock(self, tx) ==
    IF tx \notin DOMAIN self.processed_tx
    THEN Err(self, "DisputedTransactionNotFound")
    ELSE LET disputed_tx == self.processed_tx[tx]
             removed == [self EXCEPT !.under_dispute = @ \ {transaction_id(disputed_tx)}]
         IN  IF transaction_id(disputed_tx) \notin self.under_dispute
             THEN Err(self, "DisputedTransactionNotFound")
             ELSE IF disputed_tx.kind = "Deposit"
             THEN Ok([removed EXCEPT !.held = @ - disputed_tx.amount,
                                     !.total = @ - disputed_tx.amount])
             ELSE Ok(removed)

\* fault: the amount charged back stays held
handle_chargeback_KeepsHeld(self, tx) ==
    IF tx \notin DOMAIN self.processed_tx
    THEN Err(self, "DisputedTransactionNotFound")
    ELSE LET disputed_tx == self.processed_tx[tx]
             removed == [self EXCEPT !.under_dispute = @ \ {transaction_id(disputed_tx)}]
         IN  IF transaction_id(disputed_tx) \notin self.under_dispute
             THEN Err(self, "DisputedTransactionNotFound")
             ELSE IF disputed_tx.kind = "Deposit"
             THEN Ok([removed EXCEPT !.total = @ - disputed_tx.amount,
                                     !.locked = TRUE])
             ELSE Ok(removed)

handle_chargeback(self, tx) ==
    IF tx \notin DOMAIN self.processed_tx
    THEN Err(self, "DisputedTransactionNotFound")
    ELSE LET disputed_tx == self.processed_tx[tx]
             removed == [self EXCEPT !.under_dispute = @ \ {transaction_id(disputed_tx)}]
         IN  IF transaction_id(disputed_tx) \notin self.under_dispute
             THEN Err(self, "DisputedTransactionNotFound")
             ELSE IF disputed_tx.kind = "Deposit"
             THEN Ok([removed EXCEPT !.held = @ - disputed_tx.amount,
                                     !.total = @ - disputed_tx.amount,
                                     !.locked = TRUE])
             ELSE Ok(removed)

\* fault: withdrawals are not recorded
record_tx_DepositsOnly(r, op) ==
    IF r.res = "Ok" /\ op.kind = "Deposit"
    THEN Ok([r.acct EXCEPT !.processed_tx = Insert(@, op.tx, op)])
    ELSE r

\* `handler(..)?; self.processed_tx.insert(tx_id, tx)`: the insert runs only
\* when the handler returned Ok
record_tx(r, op) ==
    IF r.res = "Ok"
    THEN Ok([r.acct EXCEPT !.processed_tx = Insert(@, op.tx, op)])
    ELSE r

\* fault: the lock is checked for deposits and withdrawals only
process_transaction_LockOnPayments(self, op) ==
    IF is_locked(self) /\ op.kind \in {"Deposit", "Withdrawal"}
    THEN Err(self, "AccountLocked")
    ELSE CASE op.kind = "Deposit" ->
                record_tx(handle_deposit(self, op.tx, op.amount), op)
           [] op.kind = "Withdrawal" ->
                record_tx(handle_withdraw(self, op.tx, op.amount), op)
           [] op.kind = "Dispute" -> handle_dispute(self, op.tx)
           [] op.kind = "Resolve" -> handle_resolve(self, op.tx)
           [] op.kind = "Chargeback" -> handle_chargeback(self, op.tx)

\* fault: a locked account still takes chargebacks
process_transaction_ChargebackWhenLocked(self, op) ==
    IF is_locked(self) /\ op.kind # "Chargeback"
    THEN Err(self, "AccountLocked")
    ELSE CASE op.kind = "Deposit" ->
                record_tx(handle_deposit(self, op.tx, op.amount), op)
           [] op.kind = "Withdrawal" ->
                record_tx(handle_withdraw(self, op.tx, op.amount), op)
           [] op.kind = "Dispute" -> handle_dispute(self, op.tx)
           [] op.kind = "Resolve" -> handle_resolve(self, op.tx)
           [] op.kind = "Chargeback" -> handle_chargeback(self, op.tx)

process_transaction(self, op) ==
    IF is_locked(self)
    THEN Err(self, "AccountLocked")
    ELSE CASE op.kind = "Deposit" ->
                record_tx(handle_deposit(self, op.tx, op.amount), op)
           [] op.kind = "Withdrawal" ->
                record_tx(handle_withdraw(self, op.tx, op.amount), op)
           [] op.kind = "Dispute" -> handle_dispute(self, op.tx)
           [] op.kind = "Resolve" -> handle_resolve(self, op.tx)
           [] op.kind = "Chargeback" -> handle_chargeback(self, op.tx)

\* ------------------------------------------- the ClientAccount of main.rs
\* main.rs carries its own copy of the account; its handlers take no tx id
\* and leave the duplicate check to process_transaction.
main_handle_deposit(self, amount) ==
    Ok([self EXCEPT !.available = @ + amount, !.total = @ + amount])

main_handle_withdraw(self, amount) ==
    IF self.available < amount
    THEN Err(self, "InsufficientFunds")
    ELSE Ok([self EXCEPT !.available = @ - amount, !.total = @ - amount])

main_handle_dispute(self, tx) ==
    IF tx \notin DOMAIN self.processed_tx
    THEN Err(self, "DisputedTransactionNotFound")
    ELSE LET found == self.processed_tx[tx]
         IN  IF found.kind = "Deposit"
             THEN Ok([self EXCEPT !.available = @ - found.amount,
                                  !.held = @ + found.amount,
                                  !.under_dispute = @ \cup {transaction_id(found)}])
             ELSE Ok(self)

main_handle_resolve(self, tx) ==
    IF tx \notin DOMAIN self.processed_tx
    THEN Err(self, "DisputedTransactionNotFound")
    ELSE LET disputed_tx == self.processed_tx[tx]
             removed == [self EXCEPT !.under_dispute = @ \ {transaction_id(disputed_tx)}]
         IN  IF transaction_id(disputed_tx) \notin self.under_dispute
             THEN Err(self, "DisputedTransactionNotFound")
             ELSE IF disputed_tx.kind = "Deposit"
             THEN Ok([removed EXCEPT !.available = @ + disputed_tx.amount,
                                     !.held = @ - disputed_tx.amount])
             ELSE Ok(removed)

main_handle_chargeback(self, tx) ==
    IF tx \notin DOMAIN self.processed_tx
    THEN Err(self, "DisputedTransactionNotFound")
    ELSE LET disputed_tx == self.processed_tx[tx]
             removed == [self EXCEPT !.under_dispute = @ \ {transaction_id(disputed_tx)}]
         IN  IF transaction_id(disputed_tx) \notin self.under_dispute
             THEN Err(self, "DisputedTransactionNotFound")
             ELSE IF disputed_tx.kind = "Deposit"
             THEN Ok([removed EXCEPT !.held = @ - disputed_tx.amount,
                                     !.total = @ - disputed_tx.amount,
                                     !.locked = TRUE])
             ELSE Ok(removed)

\* the lock check, then the duplicate check on the tx id the operation
\* carries, whatever its kind; every operation that succeeded is recorded
main_process_transaction(self, op) ==
    IF is_locked(self)
    THEN Err(self, "AccountLocked")
    ELSE IF transaction_id(op) \in DOMAIN self.processed_tx
    THEN Err(self, "AlreadyProcessed")
    ELSE LET r == CASE op.kind = "Deposit" -> main_handle_deposit(self, op.amount)
                    [] op.kind = "Withdrawal" -> main_handle_withdraw(self, op.amount)
                    [] op.kind = "Dispute" -> main_handle_dispute(self, op.tx)
                    [] op.kind = "Resolve" -> main_handle_resolve(self, op.tx)
                    [] op.kind = "Chargeback" -> main_handle_chargeback(self, op.tx)
         IN  IF r.res = "Ok"
             THEN Ok([r.acct EXCEPT !.processed_tx = Insert(@, transaction_id(op), op)])
             ELSE r

\* ------------------------------------------------------------ PaymentEngine
\* self.accounts.entry(client_id).or_insert_with(|| ClientAccount::new(client_id))
entry_or_insert(accts, client) ==
    IF client \in DOMAIN accts
    THEN accts
    ELSE [c \in (DOMAIN accts) \cup {client} |->
            IF c = client THEN new(client) ELSE accts[c]]

\* fault: the account is looked up under the transaction id
engine_process_transaction_ByTx(accts, op) ==
    LET client == transaction_id(op)
        table == entry_or_insert(accts, client)
        r == process_transaction(table[client], op)
    IN  [accounts |-> [table EXCEPT ![client] = r.acct],
         account |-> table[client],
         res |-> r.res]

\* fault: an account whose operation failed is replaced by a new one
engine_process_transaction_ResetOnErr(accts, op) ==
    LET client == client_id(op)
        table == entry_or_insert(accts, client)
        r == process_transaction(table[client], op)
    IN  [accounts |-> [table EXCEPT ![client] =
                          IF r.res = "Ok" THEN r.acct ELSE new(client)],
         account |-> table[client],
         res |-> r.res]

\* fault: the account enters the table only when its operation succeeds
engine_process_transaction_InsertOnOk(accts, op) ==
    LET client == client_id(op)
        table == entry_or_insert(accts, client)
        r == process_transaction(table[client], op)
    IN  [accounts |-> IF r.res = "Ok" \/ client \in DOMAIN accts
                      THEN [table EXCEPT ![client] = r.acct]
                      ELSE accts,
         account |-> table[client],
         res |-> r.res]

\* fault: a tx id recorded by any account is a duplicate for every account
engine_process_transaction_GlobalDuplicates(accts, op) ==
    LET client == client_id(op)
        table == entry_or_insert(accts, client)
        r == process_transaction(table[client], op)
        seen == \E c \in DOMAIN accts :
                    transaction_id(op) \in DOMAIN accts[c].processed_tx
    IN  IF op.kind \in {"Deposit", "Withdrawal"} /\ seen /\ ~table[client].locked
        THEN [accounts |-> table, account |-> table[client],
              res |-> "AlreadyProcessed"]
        ELSE [accounts |-> [table EXCEPT ![client] = r.acct],
              account |-> table[client],
              res |-> r.res]

\* PaymentEngine::process_transaction: the account's error is logged, not
\* returned; `res` is what the log line (if any) reports.
engine_process_transaction(accts, op) ==
    LET client == client_id(op)
        table == entry_or_insert(accts, client)
        r == process_transaction(table[client], op)
    IN  [accounts |-> [table EXCEPT ![client] = r.acct],
         account |-> table[client],
         res |-> r.res]

\* -------------------------------------------------------------------- state
VARIABLES
    accounts,   \* PaymentEngine.accounts: client id -> ClientAccount
    lastOp,     \* the operation routed last
    result,     \* what ClientAccount::process_transaction returned for it
    before,     \* the account that call was made on, as it was at the call
    first,      \* history, kept by Spec: if lastOp repeats the operation
                \* routed just before it, the result of that earlier
                \* routing; "None" otherwise
    clean,      \* history, kept by SpecEngine: the account table of an
                \* engine that is fed only the operations that returned Ok
    life,       \* history, kept by SpecLife: for each client and tx id, the
                \* kinds of the last two operations naming it that returned Ok
    panicked,   \* the process was aborted by a panic
    pending,    \* SpecShard: the operations that arrived and that the worker
                \* of their client has not processed yet, in arrival order
    shard,      \* SpecShard: the account table the workers build
    overtook,   \* history, kept by SpecShard: a worker processed an
                \* operation while an earlier one was still pending
    record,     \* SpecAdapter: the CSV record read last
    converted,  \* SpecAdapter: what try_from returned for it
    chargebacks,    \* history, kept by SpecLife: for each client, the number
                    \* of Chargebacks that returned Ok
    mainAccount,    \* SpecMain: the ClientAccount of main.rs
    mainResult      \* SpecMain: what its process_transaction returned

vars == <<accounts, lastOp, result, before, first, clean, life, panicked,
          pending, shard, overtook, record, converted, chargebacks,
          mainAccount, mainResult>>

NoOp == [kind |-> "None"]

NoRecord == [ty |-> "", client |-> 0, tx |-> 0, amount |-> None]

Init ==
    /\ accounts = EmptyMap
    /\ lastOp = NoOp
    /\ result = "None"
    /\ before = new(0)
    /\ first = "None"
    /\ clean = EmptyMap
    /\ life = [k \in Clients \X TxIds |-> <<"None", "None">>]
    /\ panicked = FALSE
    /\ pending = <<>>
    /\ shard = EmptyMap
    /\ overtook = FALSE
    /\ record = NoRecord
    /\ converted = Rejected("None")
    /\ chargebacks = [c \in Clients |-> 0]
    /\ mainAccount = new(1)
    /\ mainResult = "None"

\* the engine processes `op`; `ghost` names the history variable the
\* specification keeps: "first", "clean" or "life".
Step(op, ghost) ==
    LET r == engine_process_transaction(accounts, op) IN
    /\ accounts' = r.accounts
    /\ lastOp' = op
    /\ result' = r.res
    /\ before' = r.account
    /\ first' = IF ghost = "first" /\ op = lastOp THEN result ELSE "None"
    /\ clean' = IF ghost = "clean" /\ r.res = "Ok"
                THEN engine_process_transaction(clean, op).accounts
                ELSE clean
    /\ life' = IF ghost = "life" /\ r.res = "Ok"
               THEN [life EXCEPT ![<<op.client, op.tx>>] = <<@[2], op.kind>>]
               ELSE life
    /\ chargebacks' = IF ghost = "life" /\ r.res = "Ok" /\ op.kind = "Chargeback"
                      THEN [chargebacks EXCEPT ![op.client] = @ + 1]
                      ELSE chargebacks

\* one iteration of the loop of main: the record became `op`, the engine
\* processes it, and the loop goes on whatever the outcome
Route(op, ghost) ==
    /\ Step(op, ghost)
    /\ UNCHANGED <<panicked, pending, shard, overtook, record, converted,
                   mainAccount, mainResult>>

\* number of deposits and withdrawals recorded in an account table
RECURSIVE Recorded(_)
Recorded(accts) ==
    IF DOMAIN accts = {} THEN 0
    ELSE LET c == CHOOSE x \in DOMAIN accts : TRUE IN
         Cardinality(DOMAIN accts[c].processed_tx)
           + Recorded([x \in (DOMAIN accts) \ {c} |-> accts[x]])

\* the stream is cut where it would record more than `cap` transactions
WithinCap(op, cap) ==
    Recorded(engine_process_transaction(accounts, op).accounts) <= cap

RouteDeposit(cs, as, cap, ghost) ==
    \E c \in cs, t \in TxIds, a \in as :
        WithinCap(Deposit(c, t, a), cap) /\ Route(Deposit(c, t, a), ghost)

RouteWithdrawal(cs, as, cap, ghost) ==
    \E c \in cs, t \in TxIds, a \in as :
        WithinCap(Withdrawal(c, t, a), cap) /\ Route(Withdrawal(c, t, a), ghost)

\* (the loop reads a record only while the process is alive)
RouteDispute(cs, ghost) ==
    \E c \in cs, t \in TxIds : ~panicked /\ Route(Dispute(c, t), ghost)

RouteResolve(cs, ghost) ==
    \E c \in cs, t \in TxIds : ~panicked /\ Route(Resolve(c, t), ghost)

RouteChargeback(cs, ghost) ==
    \E c \in cs, t \in TxIds : ~panicked /\ Route(Chargeback(c, t), ghost)

\* one client, the full range of amounts (one account records at most MaxTx
\* transactions, so the cap never cuts this stream)
Next ==
    \/ RouteDeposit({1}, Amounts, MaxTx, "first")
    \/ RouteWithdrawal({1}, Amounts, MaxTx, "first")
    \/ RouteDispute({1}, "first")
    \/ RouteResolve({1}, "first")
    \/ RouteChargeback({1}, "first")

Spec == Init /\ [][Next]_vars

\* several clients routed through one engine
NextEngine ==
    \/ RouteDeposit(Clients, EngineAmounts, MaxRecorded, "clean")
    \/ RouteWithdrawal(Clients, EngineAmounts, MaxRecorded, "clean")
    \/ RouteDispute(Clients, "clean")
    \/ RouteResolve(Clients, "clean")
    \/ RouteChargeback(Clients, "clean")

SpecEngine == Init /\ [][NextEngine]_vars

\* one client, positive amounts, with the history of each tx id
NextLife ==
    \/ RouteDeposit({1}, 1..MaxAmount, MaxTx, "life")
    \/ RouteWithdrawal({1}, 1..MaxAmount, MaxTx, "life")
    \/ RouteDispute({1}, "life")
    \/ RouteResolve({1}, "life")
    \/ RouteChargeback({1}, "life")

SpecLife == Init /\ [][NextLife]_vars

\* every operation over the clients `cs` and the amounts `as`
Operations(cs, as) ==
    {Deposit(c, t, a) : c \in cs, t \in TxIds, a \in as}
      \cup {Withdrawal(c, t, a) : c \in cs, t \in TxIds, a \in as}
      \cup {Dispute(c, t) : c \in cs, t \in TxIds}
      \cup {Resolve(c, t) : c \in cs, t \in TxIds}
      \cup {Chargeback(c, t) : c \in cs, t \in TxIds}

\* Decimal's `+=` and `-=` panic when the result does not fit the type.
\* Every handler writes each balance at most once, so one of its
\* assignments panicked iff a balance it computed is out of range.
Overflows(acct) ==
    \E v \in {acct.available, acct.held, acct.total} :
        v > DecimalMax \/ v < 0 - DecimalMax

\* amounts up to the largest value the adapter parses
OverflowAmounts == {1, DecimalMax, 0 - DecimalMax}

\* one iteration of the loop of main with amounts of any magnitude: the
\* panic of an assignment unwinds through main and ends the process
RouteOrPanic(op) ==
    /\ ~panicked
    /\ IF Overflows(engine_process_transaction(accounts, op).accounts[client_id(op)])
       THEN /\ panicked' = TRUE
            /\ lastOp' = op
            /\ UNCHANGED <<accounts, result, before, first, clean, life,
                           pending, shard, overtook, record, converted,
                           chargebacks, mainAccount, mainResult>>
       ELSE Route(op, "none")

NextOverflow == \E op \in Operations({1}, OverflowAmounts) : RouteOrPanic(op)

SpecOverflow == Init /\ [][NextOverflow]_vars

\* Sharding by client id: the stream is processed in arrival order by one
\* engine (`accounts`) and, operation by operation, by the worker that owns
\* the account of its client (`shard`). Workers run in any order; a worker
\* takes the operations of its client in arrival order.
ShardClients == {1, 2}

\* what a client sends: the tx ids are the same for every client
ShardOps ==
    UNION {{Deposit(c, 1, 1), Withdrawal(c, 2, 1), Dispute(c, 1),
            Resolve(c, 1), Chargeback(c, 1)} : c \in ShardClients}

\* `op` arrives: the sequential engine processes it at once, the sharded
\* one hands it to the worker of its client
Dispatch(op) ==
    /\ Len(pending) < MaxPending
    /\ accounts' = engine_process_transaction(accounts, op).accounts
    /\ pending' = Append(pending, op)
    /\ UNCHANGED <<lastOp, result, before, first, clean, life, panicked,
                   shard, overtook, record, converted, chargebacks,
                   mainAccount, mainResult>>

\* the worker that owns the client of pending[i] processes it; it is the
\* first pending operation of that client
Work(i) ==
    /\ \A j \in 1..(i - 1) : client_id(pending[j]) # client_id(pending[i])
    /\ shard' = engine_process_transaction(shard, pending[i]).accounts
    /\ pending' = [k \in 1..(Len(pending) - 1) |->
                      IF k < i THEN pending[k] ELSE pending[k + 1]]
    /\ overtook' = (overtook \/ i > 1)
    /\ UNCHANGED <<accounts, lastOp, result, before, first, clean, life,
                   panicked, record, converted, chargebacks, mainAccount,
                   mainResult>>

NextShard ==
    \/ \E op \in ShardOps : Dispatch(op)
    \/ \E i \in 1..Len(pending) : Work(i)

SpecShard == Init /\ [][NextShard]_vars

\* The ingestion loop of main: a record is read, converted, and routed if
\* the conversion succeeded; a rejected record is logged and skipped.
RecordTypes ==
    {"deposit", "withdrawal", "dispute", "resolve", "chargeback", "transfer"}

\* no amount, text that is no decimal, "1", 10^-PRECISION, and one digit
\* more than PRECISION allows
RecordAmounts ==
    {None, NotADecimal, Decimal(1, 0), Decimal(1, PRECISION),
     Decimal(1, PRECISION + 1)}

Records ==
    {[ty |-> ty, client |-> 1, tx |-> t, amount |-> a] :
        ty \in RecordTypes, t \in TxIds, a \in RecordAmounts}

Ingest(value) ==
    LET tx == try_from(value) IN
    /\ record' = value
    /\ converted' = tx
    /\ IF tx.ok
       THEN Step(tx.op, "none")
       ELSE /\ lastOp' = NoOp
            /\ result' = "None"
            /\ before' = new(0)
            /\ UNCHANGED <<accounts, first, clean, life, chargebacks>>
    /\ UNCHANGED <<panicked, pending, shard, overtook, mainAccount, mainResult>>

NextAdapter == \E value \in Records : Ingest(value)

SpecAdapter == Init /\ [][NextAdapter]_vars

\* The same stream applied to the account of client.rs (through the engine)
\* and to the account of main.rs, both new at the start.
ApplyBoth(op) ==
    LET r == main_process_transaction(mainAccount, op) IN
    /\ Step(op, "none")
    /\ mainAccount' = r.acct
    /\ mainResult' = r.res
    /\ UNCHANGED <<panicked, pending, shard, overtook, record, converted>>

NextMain == \E op \in Operations({1}, 1..MaxAmount) : ApplyBoth(op)

SpecMain == Init /\ [][NextMain]_vars

\* ------------------------------------------------------------- properties
\* an operation has been routed
Routed == lastOp.kind # "None"

\* the account the last operation was routed to, as the call left it
Current == accounts[lastOp.client]

\* the deposit or withdrawal the last operation names was recorded in its
\* account when the call was made
NamesRecorded == lastOp.tx \in DOMAIN before.processed_tx

NamesDeposit == NamesRecorded /\ before.processed_tx[lastOp.tx].kind = "Deposit"

\* C1: in every reachable state of every account, after any sequence of
\* successful or failed operations, total = available + held.
C1_TotalIsAvailablePlusHeld ==
    \A c \in DOMAIN accounts :
        accounts[c].total = accounts[c].available + accounts[c].held

\* an account with funds on both sides, reached through a dispute and
\* followed by a failed operation
C1_Witness ==
    /\ Routed
    /\ result \in ClientErr
    /\ Current.held > 0
    /\ Current.available > 0
    /\ Current.total = Current.available + Current.held

\* C2: once an account is locked, every later operation on it returns
\* AccountLocked and no field of the account changes again.
C2_LockedIsFinal ==
    [][\A c \in DOMAIN accounts :
          accounts[c].locked =>
             /\ accounts'[c] = accounts[c]
             /\ lastOp'.client = c => result' = "AccountLocked"]_vars

\* a Resolve naming a deposit still under dispute, routed to a locked account
C2_Witness ==
    /\ Routed
    /\ before.locked
    /\ lastOp.kind = "Resolve"
    /\ result = "AccountLocked"
    /\ before.under_dispute # {}
    /\ Current = before

\* C3: an operation for which process_transaction returns an error leaves
\* available, held, total, locked, processed_tx and under_dispute as they
\* were before the call.
C3_ErrorLeavesAccountUnchanged ==
    (Routed /\ result \in ClientErr) => Current = before

\* a withdrawal that fails for lack of funds on an account that holds funds
C3_Witness ==
    /\ Routed
    /\ lastOp.kind = "Withdrawal"
    /\ result = "InsufficientFunds"
    /\ before.available > 0
    /\ Current = before

\* C4, as claimed: applying the same Deposit/Withdrawal twice leaves the
\* account as one application left it and the second application returns
\* AlreadyProcessed, whatever the account state and the operation.
C4_SecondIsAlreadyProcessed ==
    (first # "None" /\ lastOp.kind \in {"Deposit", "Withdrawal"}) =>
        /\ Current = before
        /\ result = "AlreadyProcessed"

\* C4, amended: applying the same Deposit/Withdrawal twice leaves the
\* account as one application left it; the second application returns
\* AlreadyProcessed if the first succeeded, and the error of the first one
\* if the first failed.
C4_SecondApplication ==
    (first # "None" /\ lastOp.kind \in {"Deposit", "Withdrawal"}) =>
        /\ Current = before
        /\ first = "Ok" => result = "AlreadyProcessed"
        /\ first # "Ok" => result = first

\* a withdrawal that succeeded and was routed again
C4_Witness ==
    /\ first = "Ok"
    /\ lastOp.kind = "Withdrawal"
    /\ result = "AlreadyProcessed"
    /\ Current = before

\* C5: a successful Dispute of a recorded deposit of amount A decreases
\* available by A, increases held by A, leaves total and locked unchanged
\* and adds the tx id to the disputed set.
C5_DisputeMovesDeposit ==
    (Routed /\ lastOp.kind = "Dispute" /\ result = "Ok" /\ NamesDeposit) =>
        LET A == before.processed_tx[lastOp.tx].amount IN
        /\ Current.available = before.available - A
        /\ Current.held = before.held + A
        /\ Current.total = before.total
        /\ Current.locked = before.locked
        /\ ~Current.locked
        /\ Current.under_dispute = before.under_dispute \cup {lastOp.tx}
        /\ lastOp.tx \notin before.under_dispute
        /\ Current.processed_tx = before.processed_tx

\* the second of two deposits is disputed while the first is under dispute
C5_Witness ==
    /\ Routed
    /\ lastOp.kind = "Dispute"
    /\ result = "Ok"
    /\ NamesDeposit
    /\ before.processed_tx[lastOp.tx].amount = 2
    /\ before.held # 0
    /\ Current.held = before.held + 2

\* C6: Resolve is the inverse of Dispute: on an unlocked account, for a
\* recorded deposit not under dispute, Dispute(tx) succeeds and an
\* immediately following Resolve(tx) succeeds and returns the account to
\* exactly its state before the dispute, tx no longer under dispute.
C6_ResolveInvertsDispute ==
    [][(/\ Routed
        /\ lastOp.kind = "Dispute"
        /\ ~before.locked
        /\ NamesDeposit
        /\ lastOp.tx \notin before.under_dispute
        /\ lastOp' = Resolve(lastOp.client, lastOp.tx))
       => (/\ result = "Ok"
           /\ lastOp.tx \in accounts[lastOp.client].under_dispute
           /\ result' = "Ok"
           /\ accounts'[lastOp.client] = before
           /\ lastOp.tx \notin accounts'[lastOp.client].under_dispute)]_vars

\* a Resolve that released a deposit of amount 2 while another deposit
\* stayed under dispute
C6_Witness ==
    /\ Routed
    /\ lastOp.kind = "Resolve"
    /\ result = "Ok"
    /\ NamesDeposit
    /\ before.processed_tx[lastOp.tx].amount = 2
    /\ Current.held # 0
    /\ Current.available = before.available + 2
    /\ lastOp.tx \notin Current.under_dispute

\* C7: a successful Chargeback of a disputed deposit of amount A decreases
\* held and total by A, leaves available unchanged, removes the tx id from
\* the disputed set and locks the account.
C7_ChargebackEffect ==
    (Routed /\ lastOp.kind = "Chargeback" /\ result = "Ok") =>
        /\ NamesDeposit
        /\ lastOp.tx \in before.under_dispute
        /\ LET A == before.processed_tx[lastOp.tx].amount IN
           /\ Current.held = before.held - A
           /\ Current.total = before.total - A
           /\ Current.available = before.available
           /\ Current.under_dispute = before.under_dispute \ {lastOp.tx}
           /\ Current.locked
           /\ Current.processed_tx = before.processed_tx

\* a chargeback of one of two disputed deposits
C7_Witness ==
    /\ Routed
    /\ lastOp.kind = "Chargeback"
    /\ result = "Ok"
    /\ ~before.locked
    /\ Current.locked
    /\ Current.held # 0
    /\ Current.under_dispute # {}

\* C8: a Withdrawal with a fresh tx id on an unlocked account succeeds iff
\* amount <= available (held funds do not count); when amount > available
\* it returns InsufficientFunds, changes no balance and records nothing.
C8_WithdrawalIffFunds ==
    (/\ Routed
     /\ lastOp.kind = "Withdrawal"
     /\ ~before.locked
     /\ ~NamesRecorded)
    => /\ result = "Ok" <=> lastOp.amount <= before.available
       /\ lastOp.amount > before.available =>
             /\ result = "InsufficientFunds"
             /\ Current.available = before.available
             /\ Current.held = before.held
             /\ Current.total = before.total
             /\ lastOp.tx \notin DOMAIN Current.processed_tx
       /\ result = "Ok" =>
             /\ Current.available = before.available - lastOp.amount
             /\ Current.processed_tx = Insert(before.processed_tx, lastOp.tx, lastOp)

\* a withdrawal that the total would cover but the available funds do not
C8_Witness ==
    /\ Routed
    /\ lastOp.kind = "Withdrawal"
    /\ ~before.locked
    /\ ~NamesRecorded
    /\ before.held > 0
    /\ lastOp.amount > before.available
    /\ lastOp.amount <= before.total
    /\ result = "InsufficientFunds"

\* the last operation is a Dispute/Resolve/Chargeback whose tx id is
\* recorded in another client's account and not in its own
NamesForeignTx ==
    /\ Routed
    /\ lastOp.kind \in {"Dispute", "Resolve", "Chargeback"}
    /\ ~NamesRecorded
    /\ \E b \in DOMAIN accounts :
          b # lastOp.client /\ lastOp.tx \in DOMAIN accounts[b].processed_tx

\* routing an operation leaves the account of every other client as it was
OthersUntouched ==
    \A b \in DOMAIN accounts : b # lastOp'.client => accounts'[b] = accounts[b]

\* C9, as claimed: an operation of client A never changes the account of
\* a client B, and a Dispute/Resolve/Chargeback of A naming a tx id recorded
\* only in B's account fails with DisputedTransactionNotFound.
C9_IsolationNotFound ==
    [][/\ OthersUntouched
       /\ NamesForeignTx' => result' = "DisputedTransactionNotFound"]_vars

\* C9, amended: ... fails with DisputedTransactionNotFound, or with
\* AccountLocked when A's own account is locked; B is untouched either way.
C9_Isolation ==
    [][/\ OthersUntouched
       /\ NamesForeignTx' =>
            /\ result' = (IF before'.locked THEN "AccountLocked"
                          ELSE "DisputedTransactionNotFound")
            /\ accounts'[lastOp'.client] = before']_vars

\* client A disputes a deposit that only client B recorded and holds
C9_Witness ==
    /\ NamesForeignTx
    /\ lastOp.kind = "Dispute"
    /\ result = "DisputedTransactionNotFound"
    /\ \E b \in DOMAIN accounts :
          /\ b # lastOp.client
          /\ lastOp.tx \in DOMAIN accounts[b].processed_tx
          /\ accounts[b].available > 0
          /\ accounts[b].under_dispute = {}

\* the balances and the lock of an account
Balances(a) == <<a.available, a.held, a.total, a.locked>>

\* C10: the router recovers every account-level error and goes on: the
\* balances and the lock of every account equal those of the same stream
\* routed without its failing operations (an account that exists only
\* because of failed operations has the balances of a new account).
C10_ErrorsRecovered ==
    /\ DOMAIN clean \subseteq DOMAIN accounts
    /\ \A c \in DOMAIN accounts :
          Balances(accounts[c]) =
             Balances(IF c \in DOMAIN clean THEN clean[c] ELSE new(c))

\* an operation applied after another client's operations all failed
C10_Witness ==
    /\ Routed
    /\ result = "Ok"
    /\ lastOp.kind = "Withdrawal"
    /\ DOMAIN accounts # DOMAIN clean
    /\ Current.available = 0
    /\ Cardinality(DOMAIN Current.processed_tx) = 2

\* C11: the router never panics and never aborts the run, whatever the
\* engine state and the operation, including when balance additions or
\* subtractions reach the bounds of the amount type.
C11_NeverPanics == ~panicked

\* the kind of the last operation that returned Ok among those naming the
\* client and the tx id of `op`
LastOk(op) == life[<<op.client, op.tx>>][2]

\* a successful Resolve or Chargeback names a tx that is under dispute and
\* whose last successful operation was a Dispute
SettlesOpenDispute ==
    (lastOp'.kind \in {"Resolve", "Chargeback"} /\ result' = "Ok") =>
        /\ lastOp'.tx \in before'.under_dispute
        /\ LastOk(lastOp') = "Dispute"

\* C12, as claimed: a Resolve or Chargeback succeeds only if the tx is in
\* the disputed set and otherwise returns DisputedTransactionNotFound; a
\* Dispute of a tx in the disputed set returns AlreadyProcessed; a
\* successful Resolve/Chargeback of tx follows a successful Dispute of tx
\* with no successful Resolve of tx in between.
C12_Lifecycle ==
    [][/\ SettlesOpenDispute
       /\ (/\ lastOp'.kind \in {"Resolve", "Chargeback"}
           /\ lastOp'.tx \notin before'.under_dispute)
          => result' = "DisputedTransactionNotFound"
       /\ (/\ lastOp'.kind = "Dispute"
           /\ lastOp'.tx \in before'.under_dispute)
          => result' = "AlreadyProcessed"]_vars

\* C12, amended: the two error cases are those of an unlocked account; a
\* locked account returns AccountLocked in both.
C12_LifecycleUnlocked ==
    [][/\ SettlesOpenDispute
       /\ (/\ lastOp'.kind \in {"Resolve", "Chargeback"}
           /\ lastOp'.tx \notin before'.under_dispute)
          => result' = (IF before'.locked THEN "AccountLocked"
                        ELSE "DisputedTransactionNotFound")
       /\ (/\ lastOp'.kind = "Dispute"
           /\ lastOp'.tx \in before'.under_dispute)
          => result' = (IF before'.locked THEN "AccountLocked"
                        ELSE "AlreadyProcessed")]_vars

\* a second Resolve of a deposit whose dispute was already resolved
C12_Witness ==
    /\ Routed
    /\ lastOp.kind = "Resolve"
    /\ result = "DisputedTransactionNotFound"
    /\ ~before.locked
    /\ life[<<lastOp.client, lastOp.tx>>] = <<"Dispute", "Resolve">>

\* C13: in every reachable account state, every tx id in the disputed set
\* is a key of the processed map and the operation recorded under it is a
\* Deposit.
C13_DisputedAreRecordedDeposits ==
    \A c \in DOMAIN accounts :
        \A t \in accounts[c].under_dispute :
            /\ t \in DOMAIN accounts[c].processed_tx
            /\ accounts[c].processed_tx[t].kind = "Deposit"

\* a deposit is under dispute and the Dispute of a recorded withdrawal has
\* just returned Ok
C13_Witness ==
    /\ Routed
    /\ lastOp.kind = "Dispute"
    /\ result = "Ok"
    /\ NamesRecorded
    /\ before.processed_tx[lastOp.tx].kind = "Withdrawal"
    /\ Current.under_dispute # {}

\* what an account has recorded stays recorded, unchanged
RecordedStays ==
    \A c \in DOMAIN accounts :
        \A t \in DOMAIN accounts[c].processed_tx :
            /\ t \in DOMAIN accounts'[c].processed_tx
            /\ accounts'[c].processed_tx[t] = accounts[c].processed_tx[t]

\* every recorded operation is a Deposit or a Withdrawal kept under its
\* own tx id
RecordedArePayments ==
    \A c \in DOMAIN accounts :
        \A t \in DOMAIN accounts[c].processed_tx :
            /\ accounts[c].processed_tx[t].kind \in {"Deposit", "Withdrawal"}
            /\ accounts[c].processed_tx[t].tx = t

\* C14: the processed map is append-only and holds only deposits and
\* withdrawals: a recorded tx id maps to the same operation forever, every
\* recorded operation is a Deposit or Withdrawal whose tx id is its key, and
\* a Dispute/Resolve/Chargeback is never recorded (it leaves the map as it
\* was).
C14_ProcessedAppendOnly ==
    [][/\ RecordedStays
       /\ RecordedArePayments'
       /\ lastOp'.kind \in {"Dispute", "Resolve", "Chargeback"} =>
             accounts'[lastOp'.client].processed_tx = before'.processed_tx]_vars

\* a deposit whose tx id is already recorded as a withdrawal is refused and
\* the withdrawal stays recorded
C14_Witness ==
    /\ Routed
    /\ lastOp.kind = "Deposit"
    /\ result = "AlreadyProcessed"
    /\ NamesRecorded
    /\ before.processed_tx[lastOp.tx].kind = "Withdrawal"
    /\ Current.processed_tx[lastOp.tx] = before.processed_tx[lastOp.tx]
    /\ Current.processed_tx[lastOp.tx] # lastOp

\* C15: error precedence: on a locked account every operation returns
\* AccountLocked whatever else is wrong with it; on an unlocked account a
\* Withdrawal whose tx id is already recorded returns AlreadyProcessed even
\* when its amount exceeds `available`.
C15_ErrorPrecedence ==
    Routed =>
        /\ before.locked => result = "AccountLocked"
        /\ (~before.locked /\ lastOp.kind = "Withdrawal" /\ NamesRecorded) =>
              result = "AlreadyProcessed"

\* a withdrawal of more than is available, under a tx id already recorded,
\* on an unlocked account
C15_Witness ==
    /\ Routed
    /\ lastOp.kind = "Withdrawal"
    /\ NamesRecorded
    /\ ~before.locked
    /\ lastOp.amount > before.available
    /\ result = "AlreadyProcessed"

\* an account none of whose operations succeeded is as `new` made it
AllFailedAreNew ==
    \A c \in (DOMAIN accounts) \ (DOMAIN clean) :
        /\ Balances(accounts[c]) = <<0, 0, 0, FALSE>>
        /\ accounts[c] = new(c)

\* C16: accounts are created lazily and never destroyed: each routed
\* operation leaves the table with exactly the client ids it had plus the
\* one the operation names (so, from the empty table, the table's ids are
\* the ids named so far), whether or not the operation succeeded; an account
\* whose every operation failed has available = held = total = 0 and is
\* not locked.
C16_LazyAccounts ==
    [][/\ DOMAIN accounts' = (DOMAIN accounts) \cup {client_id(lastOp')}
       /\ AllFailedAreNew']_vars

\* the first operation naming a client has failed, next to an account
\* that holds funds
C16_Witness ==
    /\ Routed
    /\ result # "Ok"
    /\ lastOp.client \in (DOMAIN accounts) \ (DOMAIN clean)
    /\ Current = new(lastOp.client)
    /\ \E c \in DOMAIN clean : accounts[c].total > 0

\* the routed operation names a recorded withdrawal of an unlocked account
NamesWithdrawalUnlocked ==
    /\ Routed
    /\ ~before.locked
    /\ NamesRecorded
    /\ before.processed_tx[lastOp.tx].kind = "Withdrawal"

\* C19: on an unlocked account a Dispute naming a recorded Withdrawal
\* returns Ok, changes no balance and leaves the disputed set as it was; a
\* Resolve or Chargeback naming that withdrawal afterwards fails with
\* DisputedTransactionNotFound, changes nothing and does not lock the
\* account.
C19_DisputedWithdrawal ==
    NamesWithdrawalUnlocked =>
        /\ lastOp.kind = "Dispute" =>
              /\ result = "Ok"
              /\ Balances(Current) = Balances(before)
              /\ Current.under_dispute = before.under_dispute
              /\ lastOp.tx \notin Current.under_dispute
        /\ lastOp.kind \in {"Resolve", "Chargeback"} =>
              /\ result = "DisputedTransactionNotFound"
              /\ Current = before
              /\ ~Current.locked

\* a Chargeback naming a withdrawal whose Dispute returned Ok
C19_Witness ==
    /\ NamesWithdrawalUnlocked
    /\ lastOp.kind = "Chargeback"
    /\ life[<<lastOp.client, lastOp.tx>>] = <<"Withdrawal", "Dispute">>
    /\ result = "DisputedTransactionNotFound"
    /\ ~Current.locked

\* the operation about to be routed names a deposit of an unlocked account
\* and the last operation that succeeded on that tx id was of kind `k`
Follows(k) ==
    /\ ~before'.locked
    /\ LastOk(lastOp') = k
    /\ lastOp'.tx \in DOMAIN before'.processed_tx
    /\ before'.processed_tx[lastOp'.tx].kind = "Deposit"

\* C20: a resolved deposit can be disputed again: on an unlocked account a
\* Dispute that follows a successful Resolve of the same deposit returns Ok
\* and moves the deposit's amount from available to held, and a Resolve
\* that follows a successful Dispute returns Ok and moves it back, however
\* many cycles came before.
C20_DisputeResolveCycles ==
    [][LET acct == accounts'[lastOp'.client]
           amount == before'.processed_tx[lastOp'.tx].amount
       IN  /\ (lastOp'.kind = "Dispute" /\ Follows("Resolve")) =>
                 /\ result' = "Ok"
                 /\ acct.available = before'.available - amount
                 /\ acct.held = before'.held + amount
                 /\ acct.total = before'.total
                 /\ lastOp'.tx \in acct.under_dispute
           /\ (lastOp'.kind = "Resolve" /\ Follows("Dispute")) =>
                 /\ result' = "Ok"
                 /\ acct.available = before'.available + amount
                 /\ acct.held = before'.held - amount
                 /\ acct.total = before'.total
                 /\ lastOp'.tx \notin acct.under_dispute]_vars

\* the second Dispute of a deposit, after its first dispute was resolved
C20_Witness ==
    /\ Routed
    /\ lastOp.kind = "Dispute"
    /\ result = "Ok"
    /\ ~before.locked
    /\ life[<<lastOp.client, lastOp.tx>>] = <<"Resolve", "Dispute">>
    /\ Current.held = before.held + before.processed_tx[lastOp.tx].amount

\* what the output shows of an account table
Rows(accts) == [c \in DOMAIN accts |-> Balances(accts[c])]

\* C17: sharding by client id is safe: once every operation that arrived
\* has been processed by the worker of its client, in whatever order the
\* workers ran, the workers' account table has the client ids, balances and
\* locks of the table built by processing the stream in arrival order.
C17_ShardingSafe == (pending = <<>>) => Rows(shard) = Rows(accounts)

\* the workers are done, one of them overtook an earlier operation of the
\* other client, both accounts recorded a deposit under the same tx id, one
\* of them went on to a withdrawal and the other to a chargeback
C17_Witness ==
    /\ pending = <<>>
    /\ overtook
    /\ DOMAIN shard = ShardClients
    /\ \E a, b \in ShardClients :
          /\ 1 \in DOMAIN shard[a].processed_tx
          /\ 1 \in DOMAIN shard[b].processed_tx
          /\ 2 \in DOMAIN shard[a].processed_tx
          /\ 2 \notin DOMAIN shard[b].processed_tx
          /\ shard[b].locked

\* C18: the adapter requires an amount on a deposit or withdrawal record and
\* rejects an amount on any other: a dispute, resolve or chargeback record
\* that carries an amount is rejected by try_from and never reaches the
\* router.
C18_AmountOnlyOnPayments ==
    /\ (record.ty \in {"deposit", "withdrawal"} /\ ~record.amount.some) =>
          (~converted.ok /\ lastOp = NoOp)
    /\ (record.ty \in {"dispute", "resolve", "chargeback"} /\ record.amount.some) =>
          (~converted.ok /\ lastOp = NoOp)

\* C21: an account becomes locked only through a successful Chargeback of
\* a disputed deposit: an account is locked if and only if exactly one
\* Chargeback has succeeded on it, and no account ever has two successful
\* Chargebacks.
C21_LockedByOneChargeback ==
    /\ \A c \in DOMAIN accounts :
          /\ accounts[c].locked <=> chargebacks[c] = 1
          /\ chargebacks[c] <= 1
    /\ (Routed /\ Current.locked /\ ~before.locked) =>
          /\ lastOp.kind = "Chargeback"
          /\ result = "Ok"
          /\ NamesDeposit
          /\ lastOp.tx \in before.under_dispute

\* a Chargeback of a second deposit still under dispute, routed to the
\* account its first Chargeback locked
C21_Witness ==
    /\ Routed
    /\ lastOp.kind = "Chargeback"
    /\ before.locked
    /\ NamesDeposit
    /\ lastOp.tx \in before.under_dispute
    /\ result = "AccountLocked"
    /\ chargebacks[lastOp.client] = 1

\* the sum of the amounts of the operations recorded under the tx ids `txs`
RECURSIVE SumOf(_, _)
SumOf(processed, txs) ==
    IF txs = {} THEN 0
    ELSE LET t == CHOOSE x \in txs : TRUE
         IN  processed[t].amount + SumOf(processed, txs \ {t})

\* C22: in every reachable account state, held equals the sum of the
\* amounts of the deposits whose tx ids are in the disputed set (0 when
\* nothing is disputed; never negative when no recorded deposit has a
\* negative amount), also after the account is locked with disputes open.
C22_HeldIsDisputedSum ==
    \A c \in DOMAIN accounts :
        LET a == accounts[c] IN
        /\ a.under_dispute \subseteq DOMAIN a.processed_tx
        /\ a.held = SumOf(a.processed_tx, a.under_dispute)
        /\ a.under_dispute = {} => a.held = 0
        /\ (\A t \in DOMAIN a.processed_tx : a.processed_tx[t].amount >= 0) =>
              a.held >= 0

\* a locked account with a dispute still open and its amount held
C22_Witness ==
    /\ Routed
    /\ lastOp.kind = "Chargeback"
    /\ result = "Ok"
    /\ Current.locked
    /\ Current.under_dispute # {}
    /\ Current.held > 0

\* C23: with every Deposit and Withdrawal amount strictly positive,
\* available and total are never negative in any reachable account state.
C23_NeverNegative ==
    \A c \in DOMAIN accounts :
        /\ accounts[c].available >= 0
        /\ accounts[c].total >= 0

\* C24: the account of main.rs is equivalent to the account of client.rs:
\* for every operation sequence applied to a new account both return the
\* same result for each operation and reach the same available, held, total
\* and locked; in particular a Dispute naming a recorded deposit succeeds
\* in both.
C24_MainEquivalent ==
    Routed =>
        /\ mainResult = result
        /\ Balances(mainAccount) = Balances(Current)
        /\ (lastOp.kind = "Dispute" /\ NamesDeposit /\ ~before.locked
              /\ lastOp.tx \notin before.under_dispute) =>
              (result = "Ok" /\ mainResult = "Ok")

\* the operation routed last names a tx id that the account of another
\* client has recorded
RecordedElsewhere ==
    \E c \in DOMAIN accounts :
        c # lastOp.client /\ lastOp.tx \in DOMAIN accounts[c].processed_tx

\* C25: duplicate detection is scoped to one account: a Deposit or
\* Withdrawal routed to an unlocked account is rejected as AlreadyProcessed
\* exactly when its tx id is in the processed map of the account its client
\* id names, whatever the other accounts have recorded.
C25_DuplicatesPerAccount ==
    (Routed /\ lastOp.kind \in {"Deposit", "Withdrawal"} /\ ~before.locked) =>
        (result = "AlreadyProcessed" <=> NamesRecorded)

\* a deposit accepted under a tx id that another account had recorded; the
\* tx id is now recorded in both accounts
C25_Witness ==
    /\ Routed
    /\ lastOp.kind = "Deposit"
    /\ result = "Ok"
    /\ ~NamesRecorded
    /\ RecordedElsewhere
    /\ lastOp.tx \in DOMAIN Current.processed_tx

====
